---- MODULE Spec2Model ----
(***************************************************************************)
(* A model of the scoreboard application's state container (GameState),    *)
(* its URL codec (url-manager.js), its localStorage adapter                *)
(* (storage-manager.js) and the session start (init).                      *)
(*                                                                         *)
(* Representation of JavaScript values:                                    *)
(*   - an object is a function from its own keys (strings) to values; a    *)
(*     key that is not in the DOMAIN is an absent property (undefined);    *)
(*   - an array is a sequence;                                             *)
(*   - null, or "no value", where a value of another type may stand, is    *)
(*     the empty sequence << >>, and the value v is then << v >>;          *)
(*   - a string the program splits, joins or trims (a player name, the     *)
(*     'players' URL parameter) is a sequence of tokens: the token ","     *)
(*     is a comma, the token " " is one whitespace character, and any      *)
(*     other token is a non-empty run of text holding neither a comma nor  *)
(*     leading or trailing whitespace;                                     *)
(*   - the player id `player_${n}` is the pair << "player", n >>.          *)
(***************************************************************************)
EXTENDS Integers, Sequences, FiniteSets, TLC

VARIABLES
    players,          \* GameState.players
    gameMode,         \* GameState.gameMode
    settings,         \* GameState.settings
    currentRound,     \* GameState.currentRound
    rounds,           \* GameState.rounds
    observers,        \* GameState.observers
    playerIdCounter,  \* the module-level counter of script.js
    saveTimeout,      \* GameState.saveTimeout: << >> or << ms left >>
    urlTimeout,       \* updateURL.timeout: << >> or << [left, url] >>
    location,         \* window.location.search, as the URLSearchParams read it
    historyLength,    \* window.history.length: the entries of the session history
    storage,          \* localStorage['scoreboard_state']: << >> or << text >>
    pc,               \* "load" before init() has run, "ready" after
    lastOp,           \* history: the last call and its arguments
    notified,         \* history: the callbacks the last call invoked, in order
    everIds,          \* history: every player id the container has ever held
    requested,        \* history: the state at the last persistState request
    burst,            \* history: requests and writes of the current burst
    returned,         \* history: how the last call ended, and with what value
    held,             \* a snapshot toJSON() returned, as its holder sees it
    teamPage,         \* script.js: the scores object and the two score elements
    clearedSince      \* history: clearStorage() has run, and no mutation since

vars == << players, gameMode, settings, currentRound, rounds, observers,
           playerIdCounter, saveTimeout, urlTimeout, location, historyLength,
           storage, pc, lastOp, notified, everIds, requested, burst, returned,
           held, teamPage, clearedSince >>

-----------------------------------------------------------------------------
(* Bounds of the model *)

MaxPlayers == 2
MaxScore == 1
MaxIdCounter == 3
MaxObservers == 2
MaxBurst == 2
MaxRound == 2
MaxBid == 1
MaxClickIds == 10
MaxCribScore == 200
MaxPegScore == 123

-----------------------------------------------------------------------------
(* Generic helpers for JavaScript objects and arrays *)

EmptyObject == [k \in {} |-> k]

Has(obj, key) == key \in DOMAIN obj

\* Object.assign(target, source) and the spread { ...target, ...source }
ObjectAssign(target, source) ==
    [k \in (DOMAIN target) \cup (DOMAIN source) |->
        IF k \in DOMAIN source THEN source[k] ELSE target[k]]

Max(a, b) == IF a >= b THEN a ELSE b

Min(a, b) == IF a <= b THEN a ELSE b

Range(seq) == {seq[i] : i \in 1..Len(seq)}

\* the last element taken when none matches, as indexing with the -1 of
\* findIndex does
FindIndex_MissingIsLast(seq, playerId) ==
    IF \E i \in 1..Len(seq) : seq[i].id = playerId
    THEN CHOOSE i \in 1..Len(seq) :
             /\ seq[i].id = playerId
             /\ \A j \in 1..(i - 1) : seq[j].id # playerId
    ELSE Len(seq)

\* Array.prototype.find, as the index of the first match (0 when none)
FindIndex(seq, playerId) ==
    IF \E i \in 1..Len(seq) : seq[i].id = playerId
    THEN CHOOSE i \in 1..Len(seq) :
             /\ seq[i].id = playerId
             /\ \A j \in 1..(i - 1) : seq[j].id # playerId
    ELSE 0

-----------------------------------------------------------------------------
(* Player ids *)

\* `player_${n}`
PlayerId(n) == << "player", n >>

\* parseInt(player.id.split('_')[1])
IdNum(id) == id[2]

\* the counter is set to the suffix itself, not to the number after it
RECURSIVE AdvanceCounter_NoIncrement(_, _)
AdvanceCounter_NoIncrement(ps, counter) ==
    IF ps = << >> THEN counter
    ELSE AdvanceCounter_NoIncrement(Tail(ps),
             IF IdNum(Head(ps).id) >= counter
             THEN IdNum(Head(ps).id)
             ELSE counter)

\* fromJSON's forEach over the restored players: the counter is moved past
\* every numeric id suffix that is not below it
RECURSIVE AdvanceCounter(_, _)
AdvanceCounter(ps, counter) ==
    IF ps = << >> THEN counter
    ELSE AdvanceCounter(Tail(ps),
             IF IdNum(Head(ps).id) >= counter
             THEN IdNum(Head(ps).id) + 1
             ELSE counter)

-----------------------------------------------------------------------------
(* Strings that are split, joined and trimmed *)

\* `Player ${n}`
DefaultName(n) == << "Player " \o ToString(n) >>

\* Array.prototype.join(',') on a sequence of names
RECURSIVE Join(_)
Join(names) ==
    IF names = << >> THEN << >>
    ELSE IF Len(names) = 1 THEN names[1]
    ELSE names[1] \o << "," >> \o Join(Tail(names))

\* String.prototype.split(','): always at least one piece
RECURSIVE Split(_)
Split(str) ==
    IF \E i \in 1..Len(str) : str[i] = ","
    THEN LET i == CHOOSE k \in 1..Len(str) :
                      /\ str[k] = ","
                      /\ \A j \in 1..(k - 1) : str[j] # ","
         IN << SubSeq(str, 1, i - 1) >> \o Split(SubSeq(str, i + 1, Len(str)))
    ELSE << str >>

\* String.prototype.trim()
RECURSIVE Trim(_)
Trim(str) ==
    IF str = << >> THEN str
    ELSE IF Head(str) = " " THEN Trim(Tail(str))
    ELSE IF str[Len(str)] = " " THEN Trim(SubSeq(str, 1, Len(str) - 1))
    ELSE str

-----------------------------------------------------------------------------
(* GameState: construction and serialization *)

DefaultSettings ==
    [colorTheme |-> "purple", showRounds |-> TRUE, numberOfRounds |-> 10,
     showBids |-> TRUE, showTricks |-> TRUE, showDeal |-> TRUE]

\* the root fields a constructor leaves
NewGameState ==
    [players |-> << >>, gameMode |-> "custom", settings |-> DefaultSettings,
     currentRound |-> 1, rounds |-> << >>]

\* GameState.toJSON() of the container as it is now
toJSON ==
    [players |-> players, gameMode |-> gameMode, settings |-> settings,
     currentRound |-> currentRound, rounds |-> rounds]

\* a field that is there counts, whatever its value
Truthy_Present(data, field) == Has(data, field)

\* JavaScript truthiness of data[field] for the root fields of a snapshot:
\* an absent field is undefined, "" and 0 are falsy, arrays and objects are truthy
Truthy(data, field) ==
    /\ Has(data, field)
    /\ field = "gameMode" => data[field] # ""
    /\ field = "currentRound" => data[field] # 0

\* the settings spread the other way round: { ...data.settings, ...this.settings }
fromJSON_SpreadSwapped(g, data) ==
    [players |-> IF Truthy(data, "players") THEN data.players ELSE g.players,
     gameMode |-> IF Truthy(data, "gameMode") THEN data.gameMode ELSE g.gameMode,
     settings |-> IF Truthy(data, "settings")
                  THEN ObjectAssign(data.settings, g.settings)
                  ELSE g.settings,
     currentRound |-> IF Truthy(data, "currentRound")
                      THEN data.currentRound ELSE g.currentRound,
     rounds |-> IF Truthy(data, "rounds") THEN data.rounds ELSE g.rounds]

\* the root fields fromJSON(data) leaves in a container whose fields are g
fromJSON(g, data) ==
    [players |-> IF Truthy(data, "players") THEN data.players ELSE g.players,
     gameMode |-> IF Truthy(data, "gameMode") THEN data.gameMode ELSE g.gameMode,
     settings |-> IF Truthy(data, "settings")
                  THEN ObjectAssign(g.settings, data.settings)
                  ELSE g.settings,
     currentRound |-> IF Truthy(data, "currentRound")
                      THEN data.currentRound ELSE g.currentRound,
     rounds |-> IF Truthy(data, "rounds") THEN data.rounds ELSE g.rounds]

-----------------------------------------------------------------------------
(* url-manager.js: the query string, as the key/value pairs URLSearchParams *)
(* holds; a pair that is not set is a key outside the DOMAIN                *)

\* String(value) of a boolean, as URLSearchParams.set stringifies it
BoolString(b) == IF b THEN "true" ELSE "false"

\* the integers whose decimal numerals parseInt is asked to read in this model
Numerals == -3 .. 12

\* the texts of this model that go on after a leading numeral, with the numeral
LeadingNumeral == [t \in {"3abc"} |-> "3"]

\* parseInt(str): << n >>, or << >> for NaN (null or no leading numeral); it
\* reads the leading numeral and ignores the rest of the text
ParseInt(str) ==
    IF str = << >> THEN << >>
    ELSE LET digits == IF str[1] \in DOMAIN LeadingNumeral
                       THEN LeadingNumeral[str[1]] ELSE str[1]
         IN  IF \E n \in Numerals : ToString(n) = digits
             THEN << CHOOSE n \in Numerals : ToString(n) = digits >>
             ELSE << >>

\* params.get(key): << value >>, or << >> for null
Get(params, key) == IF Has(params, key) THEN << params[key] >> ELSE << >>

\* params.get(key) ?? fallback: the empty text is kept
GetOr_NullOnly(params, key, fallback) ==
    IF Has(params, key) THEN params[key] ELSE fallback

\* params.get(key) || fallback, for a parameter that is a plain string
GetOr(params, key, fallback) ==
    IF Has(params, key) /\ params[key] # "" THEN params[key] ELSE fallback

\* params.get(key) !== 'false'
NotFalse(params, key) == ~(Has(params, key) /\ params[key] = "false")

serializeToURL(g) ==
    LET params == [game |-> g.gameMode,
                   theme |-> g.settings.colorTheme,
                   showRounds |-> BoolString(g.settings.showRounds),
                   numRounds |-> ToString(g.settings.numberOfRounds),
                   showBids |-> BoolString(g.settings.showBids),
                   showTricks |-> BoolString(g.settings.showTricks),
                   showDeal |-> BoolString(g.settings.showDeal)]
    IN  IF Len(g.players) > 0
        THEN ObjectAssign(params,
                 [players |-> Join([i \in 1..Len(g.players) |-> g.players[i].name])])
        ELSE params

\* the position taken from the index of the name
DecodedPlayer_PositionFromIndex(index, name) ==
    [id |-> PlayerId(index), name |-> Trim(name), score |-> 0,
     position |-> index, roundData |-> EmptyObject]

\* the player deserializeFromURL() makes of the name at `index` (from 0)
DecodedPlayer(index, name) ==
    [id |-> PlayerId(index), name |-> Trim(name), score |-> 0,
     position |-> 0, roundData |-> EmptyObject]

\* deserializeFromURL() on the query string `search`: << >> for null
deserializeFromURL(search) ==
    IF DOMAIN search = {} THEN << >>
    ELSE LET numRounds == ParseInt(Get(search, "numRounds"))
             playerNames == IF Has(search, "players") /\ search.players # << >>
                            THEN Split(search.players)
                            ELSE << >>
         IN << [gameMode |-> GetOr(search, "game", "custom"),
                players |-> [index \in 1..Len(playerNames) |->
                                DecodedPlayer(index - 1, playerNames[index])],
                settings |-> [colorTheme |-> GetOr(search, "theme", "purple"),
                              showRounds |-> NotFalse(search, "showRounds"),
                              numberOfRounds |->
                                  IF numRounds # << >> /\ numRounds[1] # 0
                                  THEN numRounds[1] ELSE 10,
                              showBids |-> NotFalse(search, "showBids"),
                              showTricks |-> NotFalse(search, "showTricks"),
                              showDeal |-> NotFalse(search, "showDeal")],
                currentRound |-> 1,
                rounds |-> << >>] >>

\* the debounce delay of updateURL, in ms
URLDelay == 300

\* history.pushState({}, '', url): a new entry after the current one
replaceState_Pushed(entry, url) ==
    [location |-> url, historyLength |-> entry.historyLength + 1]

\* history.replaceState({}, '', url) on entry = [location, historyLength]: the
\* current entry gets the url, and no entry is added
replaceState(entry, url) ==
    [location |-> url, historyLength |-> entry.historyLength]

\* updateURL(g, debounced) on u = [urlTimeout, location, historyLength]: the
\* write-back is scheduled with the url computed now, or applied at once
updateURL(u, g, debounced) ==
    IF debounced
    THEN [urlTimeout |-> << [left |-> URLDelay, url |-> serializeToURL(g)] >>,
          location |-> u.location,
          historyLength |-> u.historyLength]
    ELSE LET entry == replaceState([location |-> u.location,
                                    historyLength |-> u.historyLength],
                                   serializeToURL(g))
         IN  [urlTimeout |-> u.urlTimeout,
              location |-> entry.location,
              historyLength |-> entry.historyLength]

-----------------------------------------------------------------------------
(* storage-manager.js: the stored text is JSON.stringify of a snapshot *)

\* how a call ends: it returns a value (<< >> for undefined or null, else
\* << v >>), or it throws
Returned(value) == [threw |-> FALSE, value |-> value]

Void == Returned(<< >>)

Thrown == [threw |-> TRUE, value |-> << >>]

JSONStringify(value) == [json |-> value]

\* a stored text that is not JSON
CorruptText == [text |-> "{"]

\* JSON.parse(text): the value, or a SyntaxError thrown
JSONParse(text) ==
    IF Has(text, "json") THEN Returned(<< text.json >>) ELSE Thrown

\* localStorage.setItem(STORAGE_KEY, text) when the item is item; the call
\* throws (quota exceeded, storage disabled) when throws
SetItem(item, text, throws) ==
    IF throws THEN [storage |-> item, outcome |-> Thrown]
    ELSE [storage |-> << text >>, outcome |-> Void]

\* localStorage.getItem(STORAGE_KEY): the text, or null
GetItem(item, throws) == IF throws THEN Thrown ELSE Returned(item)

\* localStorage.removeItem(STORAGE_KEY)
RemoveItem(item, throws) ==
    IF throws THEN [storage |-> item, outcome |-> Thrown]
    ELSE [storage |-> << >>, outcome |-> Void]

\* no catch block: what the try block throws leaves the function
Caught_Rethrown(outcome) == outcome

\* try { ... } catch (e) { console.error(...) }: what the try block throws is
\* logged, and the function returns undefined (null in loadFromStorage)
Caught(outcome) == IF outcome.threw THEN Void ELSE outcome

\* saveToStorage(gameState) as a whole: the item afterwards and how it ends
SaveOutcome(item, snapshot, throws) ==
    LET set == SetItem(item, JSONStringify(snapshot), throws)
    IN  [storage |-> set.storage, outcome |-> Caught(set.outcome)]

\* loadFromStorage() as a whole: saved ? JSON.parse(saved) : null
LoadOutcome(item, throws) ==
    LET saved == GetItem(item, throws)
    IN  Caught(IF saved.threw THEN saved
               ELSE IF saved.value = << >> THEN Void
               ELSE JSONParse(saved.value[1]))

\* clearStorage() as a whole
ClearOutcome(item, throws) ==
    LET removed == RemoveItem(item, throws)
    IN  [storage |-> removed.storage, outcome |-> Caught(removed.outcome)]

\* saveToStorage(gameState) when localStorage works: the item it holds
\* afterwards
saveToStorage(snapshot) == SaveOutcome(<< >>, snapshot, FALSE).storage

\* loadFromStorage() when localStorage works: << snapshot >>, or << >> for
\* null (no item, or a text JSON.parse throws on)
loadFromStorage(item) == LoadOutcome(item, FALSE).value

-----------------------------------------------------------------------------
(* GameState: notification and persistence *)

\* the debounce delay of the localStorage save, in ms
SaveDelay == 500

\* the timers and what the history records of the requests made so far
Sched ==
    [saveTimeout |-> saveTimeout, urlTimeout |-> urlTimeout,
     location |-> location, historyLength |-> historyLength,
     requested |-> requested, burst |-> burst]

\* persistState() when the root fields are g: the pending save is cancelled
\* and scheduled anew, and the URL write-back is requested, debounced
persistState(sch, g) ==
    LET u == updateURL([urlTimeout |-> sch.urlTimeout, location |-> sch.location,
                        historyLength |-> sch.historyLength], g, TRUE)
    IN  [saveTimeout |-> << SaveDelay >>,
         urlTimeout |-> u.urlTimeout,
         location |-> u.location,
         historyLength |-> u.historyLength,
         requested |-> [state |-> << g >>, url |-> << serializeToURL(g) >>],
         burst |-> IF sch.saveTimeout # << >>
                   THEN [requests |-> Min(sch.burst.requests + 1, MaxBurst),
                         writes |-> sch.burst.writes]
                   ELSE [requests |-> 1, writes |-> 0]]

\* the observers called last first
Callbacks_Reversed(obs, g) ==
    [i \in 1..Len(obs) |-> [callback |-> obs[Len(obs) + 1 - i], state |-> g]]

\* the calls notify() makes to the observers when the root fields are g
Callbacks(obs, g) == [i \in 1..Len(obs) |-> [callback |-> obs[i], state |-> g]]

SetState(g) ==
    /\ players' = g.players
    /\ gameMode' = g.gameMode
    /\ settings' = g.settings
    /\ currentRound' = g.currentRound
    /\ rounds' = g.rounds

SetSched(sch) ==
    /\ saveTimeout' = sch.saveTimeout
    /\ urlTimeout' = sch.urlTimeout
    /\ location' = sch.location
    /\ historyLength' = sch.historyLength
    /\ requested' = sch.requested
    /\ burst' = sch.burst

\* notify() once the root fields have become g
notify(g) ==
    /\ notified' = Callbacks(observers, g)
    /\ SetSched(persistState(Sched, g))

\* the history of a call: its name, the player id and the argument it was
\* given, whether it found the player (TRUE when it takes no id), and the part
\* of the state before the call that its contract speaks of
Op(name, id, arg, found, before) ==
    [name |-> name, id |-> id, arg |-> arg, found |-> found, before |-> before]

\* a call that returns without notifying
NoNotify ==
    /\ notified' = << >>
    /\ UNCHANGED << saveTimeout, urlTimeout, location, historyLength, requested,
                    burst >>

\* no timer is due: a due timer's callback runs before the next event handler
NoTimerDue ==
    /\ saveTimeout # << 0 >>
    /\ IF urlTimeout = << >> THEN TRUE ELSE urlTimeout[1].left # 0

Ready == pc = "ready" /\ NoTimerDue

\* the calls that change the state of the game, or save it
MutatingOps ==
    {"init", "addPlayer", "removePlayer", "updatePlayer", "updatePlayerScore",
     "setPlayerScore", "setGameMode", "updateSettings", "updateRoundData",
     "resetGame", "fromJSON", "poochInputChange", "snapshotEdit",
     "saveToStorage"}

\* whether, after a step, clearStorage() has removed the stored item and no
\* mutating operation has been invoked since
ClearedAfter ==
    IF lastOp'.name = "clearStorage"
    THEN IF lastOp'.arg.throws THEN clearedSince ELSE TRUE
    ELSE IF lastOp'.name \in MutatingOps THEN FALSE
    ELSE clearedSince

\* script.js when the page of the two-team scoreboard has loaded: both scores
\* are 0, and the score elements show what the page was written with
TeamPageLoaded == [scores |-> [A |-> 0, B |-> 0], shown |-> [A |-> "0", B |-> "0"]]

\* what the holder of a snapshot sees after a step. toJSON() copies no object:
\* the snapshot refers to the players array, to the player objects and to the
\* settings object of the container, and sees every change made in place to
\* them. filter() in removePlayer makes a new array of the same objects;
\* fromJSON puts the array and the objects of its argument in the place of the
\* container's, and a new object in the place of the settings
HeldAfter ==
    IF held = << >> THEN << >>
    ELSE LET h == held[1]
             restored(field) == /\ lastOp'.name = "fromJSON"
                                /\ Truthy(lastOp'.arg, field)
             live == [players |-> /\ h.live.players
                                  /\ lastOp'.name # "removePlayer"
                                  /\ ~restored("players"),
                      objects |-> h.live.objects /\ ~restored("players"),
                      settings |-> h.live.settings /\ ~restored("settings")]
             seen(player) ==
                 IF \E j \in 1..Len(players') : players'[j].id = player.id
                 THEN players'[CHOOSE j \in 1..Len(players') :
                                   players'[j].id = player.id]
                 ELSE player
         IN  << [h EXCEPT
                   !.now.players = IF live.players THEN players'
                                   ELSE IF live.objects
                                   THEN [i \in 1..Len(h.now.players) |->
                                            seen(h.now.players[i])]
                                   ELSE h.now.players,
                   !.now.settings = IF live.settings THEN settings'
                                    ELSE h.now.settings,
                   !.live = live] >>

subscribe(callback) ==
    /\ Ready
    /\ Len(observers) < MaxObservers
    /\ observers' = Append(observers, callback)
    /\ returned' = Void
    /\ lastOp' = Op("subscribe", << >>, callback, TRUE, << >>)
    /\ NoNotify
    /\ UNCHANGED << players, gameMode, settings, currentRound, rounds,
                    playerIdCounter, storage, pc, everIds >>
    /\ held' = HeldAfter
    /\ UNCHANGED teamPage
    /\ clearedSince' = ClearedAfter

-----------------------------------------------------------------------------
(* GameState: the mutation methods *)

\* the player addPlayer(name) creates when the counter is n and the container
\* holds count players; an omitted, null or empty name gives the default name
NewPlayer(name, n, count) ==
    [id |-> PlayerId(n),
     name |-> IF name # << >> THEN name ELSE DefaultName(count + 1),
     score |-> 0,
     position |-> 0,
     roundData |-> EmptyObject]

addPlayer(name) ==
    /\ Ready
    /\ LET player == NewPlayer(name, playerIdCounter, Len(players))
           g == [toJSON EXCEPT !.players = Append(players, player)]
       IN  /\ SetState(g)
           /\ playerIdCounter' = playerIdCounter + 1
           /\ everIds' = everIds \cup {player.id}
           /\ notify(g)
           /\ returned' = Returned(<< player >>)
    /\ lastOp' = Op("addPlayer", << >>, name, TRUE, everIds)
    /\ UNCHANGED << observers, storage, pc >>
    /\ held' = HeldAfter
    /\ UNCHANGED teamPage
    /\ clearedSince' = ClearedAfter

removePlayer(playerId) ==
    /\ Ready
    /\ LET g == [toJSON EXCEPT
                    !.players = SelectSeq(players, LAMBDA p : p.id # playerId)]
       IN  /\ SetState(g)
           /\ notify(g)
    /\ returned' = Void
    /\ lastOp' = Op("removePlayer", playerId, << >>,
                    FindIndex(players, playerId) # 0, << >>)
    /\ UNCHANGED << observers, playerIdCounter, storage, pc, everIds >>
    /\ held' = HeldAfter
    /\ UNCHANGED teamPage
    /\ clearedSince' = ClearedAfter

\* a method that finds the player with players.find and changes it in place:
\* the container after the change, and nothing at all when the id is not found;
\* change maps each player to what the method makes of it
OnPlayer(opName, playerId, arg, change) ==
    /\ Ready
    /\ LET i == FindIndex(players, playerId)
       IN  IF i # 0
           THEN LET g == [toJSON EXCEPT !.players[i] = change[players[i]]]
                IN  SetState(g) /\ notify(g)
           ELSE /\ UNCHANGED << players, gameMode, settings, currentRound, rounds >>
                /\ NoNotify
    /\ returned' = Void
    /\ lastOp' = LET i == FindIndex(players, playerId)
                 IN  IF i # 0
                     THEN Op(opName, playerId, arg, TRUE, << players[i].score >>)
                     ELSE Op(opName, playerId, << >>, FALSE, << >>)
    /\ UNCHANGED << observers, playerIdCounter, storage, pc, everIds >>
    /\ held' = HeldAfter
    /\ UNCHANGED teamPage
    /\ clearedSince' = ClearedAfter

updatePlayer(playerId, updates) ==
    OnPlayer("updatePlayer", playerId, updates,
        [player \in Range(players) |-> ObjectAssign(player, updates)])

\* the clamp left out
ScoreAfterDelta_Unclamped(score, delta) == score + delta

\* player.score += delta; if (player.score < 0) player.score = 0
ScoreAfterDelta(score, delta) ==
    IF score + delta < 0 THEN 0 ELSE score + delta

\* the position left as it is in every mode
PositionAfter_Stale(player, score) == player.position

\* the position after a score change: in cribbage it follows the new score
PositionAfter(player, score) ==
    IF gameMode = "cribbage" THEN score ELSE player.position

updatePlayerScore(playerId, delta) ==
    /\ OnPlayer("updatePlayerScore", playerId, delta,
           [player \in Range(players) |->
               LET score == ScoreAfterDelta(player.score, delta)
               IN  [player EXCEPT !.score = score,
                                  !.position = PositionAfter(player, score)]])

\* Math.max(0, score)
ScoreAfterSet(score) == Max(0, score)

setPlayerScore(playerId, score) ==
    OnPlayer("setPlayerScore", playerId, score,
        [player \in Range(players) |->
            [player EXCEPT !.score = ScoreAfterSet(score),
                           !.position = PositionAfter(player, ScoreAfterSet(score))]])

\* the scores reset along with the round data
GameModeSet_ResetsScores(g, mode) ==
    [g EXCEPT !.gameMode = mode,
              !.currentRound = 1,
              !.rounds = << >>,
              !.players = [i \in 1..Len(g.players) |->
                              [g.players[i] EXCEPT !.roundData = EmptyObject,
                                                   !.score = 0]]]

\* the root fields setGameMode(mode) leaves
GameModeSet(g, mode) ==
    [g EXCEPT !.gameMode = mode,
              !.currentRound = 1,
              !.rounds = << >>,
              !.players = [i \in 1..Len(g.players) |->
                              [g.players[i] EXCEPT !.roundData = EmptyObject]]]

setGameMode(mode) ==
    /\ Ready
    /\ SetState(GameModeSet(toJSON, mode))
    /\ notify(GameModeSet(toJSON, mode))
    /\ returned' = Void
    /\ lastOp' = Op("setGameMode", << >>, mode, TRUE,
                    << currentRound,
                       \E i \in 1..Len(players) : players[i].roundData # EmptyObject >>)
    /\ UNCHANGED << observers, playerIdCounter, storage, pc, everIds >>
    /\ held' = HeldAfter
    /\ UNCHANGED teamPage
    /\ clearedSince' = ClearedAfter

updateSettings(newSettings) ==
    /\ Ready
    /\ LET g == [toJSON EXCEPT !.settings = ObjectAssign(settings, newSettings)]
       IN  SetState(g) /\ notify(g)
    /\ returned' = Void
    /\ lastOp' = Op("updateSettings", << >>, newSettings, TRUE, << >>)
    /\ UNCHANGED << observers, playerIdCounter, storage, pc, everIds >>
    /\ held' = HeldAfter
    /\ UNCHANGED teamPage
    /\ clearedSince' = ClearedAfter

\* player.roundData after updateRoundData(playerId, round, data)
RoundDataMerged(roundData, round, data) ==
    LET record == IF Has(roundData, round) THEN roundData[round] ELSE EmptyObject
    IN  ObjectAssign(roundData, (round :> ObjectAssign(record, data)))

updateRoundData(playerId, round, data) ==
    OnPlayer("updateRoundData", playerId, << round, data >>,
        [player \in Range(players) |->
            [player EXCEPT !.roundData = RoundDataMerged(player.roundData, round, data)]])

\* the positions left as they are
GameReset_KeepsPosition(g) ==
    [g EXCEPT !.currentRound = 1,
              !.rounds = << >>,
              !.players = [i \in 1..Len(g.players) |->
                              [g.players[i] EXCEPT !.score = 0,
                                                   !.roundData = EmptyObject]]]

\* the root fields resetGame() leaves
GameReset(g) ==
    [g EXCEPT !.currentRound = 1,
              !.rounds = << >>,
              !.players = [i \in 1..Len(g.players) |->
                              [g.players[i] EXCEPT !.score = 0,
                                                   !.position = 0,
                                                   !.roundData = EmptyObject]]]

resetGame ==
    /\ Ready
    /\ SetState(GameReset(toJSON))
    /\ notify(GameReset(toJSON))
    /\ returned' = Void
    /\ lastOp' = Op("resetGame", << >>, << >>, TRUE,
                    << currentRound,
                       \E i \in 1..Len(players) : players[i].position > 0,
                       \E i \in 1..Len(players) : players[i].roundData # EmptyObject >>)
    /\ UNCHANGED << observers, playerIdCounter, storage, pc, everIds >>
    /\ held' = HeldAfter
    /\ UNCHANGED teamPage
    /\ clearedSince' = ClearedAfter

\* gameState.fromJSON(data): no observer is called and nothing is scheduled
restore(data) ==
    /\ Ready
    /\ LET g == fromJSON(toJSON, data)
       IN  /\ SetState(g)
           /\ playerIdCounter' = AdvanceCounter(g.players, playerIdCounter)
           /\ everIds' = everIds \cup {g.players[i].id : i \in 1..Len(g.players)}
    /\ NoNotify
    /\ returned' = Void
    /\ lastOp' = Op("fromJSON", << >>, data, TRUE, << >>)
    /\ UNCHANGED << observers, storage, pc >>
    /\ held' = HeldAfter
    /\ UNCHANGED teamPage
    /\ clearedSince' = ClearedAfter

-----------------------------------------------------------------------------
(* Session start *)

\* the saved state preferred to the URL state
LoadedState_StorageFirst(urlState, savedState) ==
    IF savedState # << >> THEN savedState ELSE urlState

\* the snapshot init() restores: the URL state when there is one, else the
\* saved state; << >> when there is neither
LoadedState(urlState, savedState) ==
    IF urlState # << >> THEN urlState ELSE savedState

\* init(): URL state first, then localStorage, then two default players;
\* renderUI is subscribed afterwards
init ==
    /\ pc = "load"
    /\ LET loaded == LoadedState(deserializeFromURL(location),
                                 loadFromStorage(storage))
       IN  IF loaded # << >>
           THEN LET g == fromJSON(toJSON, loaded[1])
                IN  /\ SetState(g)
                    /\ playerIdCounter' = AdvanceCounter(g.players, playerIdCounter)
                    /\ everIds' = everIds \cup
                                      {g.players[i].id : i \in 1..Len(g.players)}
                    /\ UNCHANGED << saveTimeout, urlTimeout, location, historyLength, requested,
                                    burst >>
           ELSE LET first == NewPlayer(<< "Player 1" >>, playerIdCounter, 0)
                    second == NewPlayer(<< "Player 2" >>, playerIdCounter + 1, 1)
                    g1 == [toJSON EXCEPT !.players = << first >>]
                    g2 == [toJSON EXCEPT !.players = << first, second >>]
                IN  /\ SetState(g2)
                    /\ playerIdCounter' = playerIdCounter + 2
                    /\ everIds' = everIds \cup {first.id, second.id}
                    /\ SetSched(persistState(persistState(Sched, g1), g2))
    /\ notified' = << >>
    /\ observers' = Append(observers, "renderUI")
    /\ pc' = "ready"
    /\ returned' = Void
    /\ lastOp' = Op("init", << >>, << >>, TRUE, << >>)
    /\ UNCHANGED storage
    /\ held' = HeldAfter
    /\ UNCHANGED teamPage
    /\ clearedSince' = ClearedAfter

-----------------------------------------------------------------------------
(* Timers *)

\* 100 ms pass; a timer that is due fires before more time passes
Elapse(left) == IF left > 100 THEN left - 100 ELSE 0

Tick ==
    /\ pc = "ready"
    /\ NoTimerDue
    /\ ~(saveTimeout = << >> /\ urlTimeout = << >>)
    /\ saveTimeout' = IF saveTimeout = << >> THEN << >>
                      ELSE << Elapse(saveTimeout[1]) >>
    /\ urlTimeout' = IF urlTimeout = << >> THEN << >>
                     ELSE << [urlTimeout[1] EXCEPT !.left = Elapse(@)] >>
    /\ returned' = Void
    /\ lastOp' = Op("tick", << >>, << >>, TRUE, << >>)
    /\ notified' = << >>
    /\ UNCHANGED << players, gameMode, settings, currentRound, rounds, observers,
                    playerIdCounter, location, historyLength, storage, pc, everIds, requested,
                    burst >>
    /\ held' = HeldAfter
    /\ UNCHANGED teamPage
    /\ clearedSince' = ClearedAfter

\* what the timer callback passes to saveToStorage: this.toJSON(), evaluated
\* when the timer fires
SaveTimerPayload == toJSON

\* the callback persistState() scheduled: saveToStorage(this.toJSON())
SaveTimerFires ==
    /\ saveTimeout = << 0 >>
    /\ storage' = saveToStorage(SaveTimerPayload)
    /\ saveTimeout' = << >>
    /\ burst' = [burst EXCEPT !.writes = @ + 1]
    /\ returned' = Void
    /\ lastOp' = Op("saveTimer", << >>, << >>, TRUE, << >>)
    /\ notified' = << >>
    /\ UNCHANGED << players, gameMode, settings, currentRound, rounds, observers,
                    playerIdCounter, urlTimeout, location, historyLength, pc, everIds,
                    requested >>
    /\ held' = HeldAfter
    /\ UNCHANGED teamPage
    /\ clearedSince' = ClearedAfter

\* the callback updateURL() scheduled: history.replaceState({}, '', url)
URLTimerFires ==
    /\ urlTimeout # << >>
    /\ urlTimeout[1].left = 0
    /\ LET entry == replaceState([location |-> location,
                                  historyLength |-> historyLength],
                                 urlTimeout[1].url)
       IN  /\ location' = entry.location
           /\ historyLength' = entry.historyLength
    /\ urlTimeout' = << >>
    /\ returned' = Void
    /\ lastOp' = Op("urlTimer", << >>, << >>, TRUE, << >>)
    /\ notified' = << >>
    /\ UNCHANGED << players, gameMode, settings, currentRound, rounds, observers,
                    playerIdCounter, saveTimeout, storage, pc, everIds, requested,
                    burst >>
    /\ held' = HeldAfter
    /\ UNCHANGED teamPage
    /\ clearedSince' = ClearedAfter

\* a call updateURL(g, debounced) from outside persistState()
updateURLCall(g, debounced) ==
    /\ Ready
    /\ LET u == updateURL([urlTimeout |-> urlTimeout, location |-> location,
                           historyLength |-> historyLength], g, debounced)
       IN  /\ urlTimeout' = u.urlTimeout
           /\ location' = u.location
           /\ historyLength' = u.historyLength
    /\ requested' = [requested EXCEPT !.url = << serializeToURL(g) >>]
    /\ returned' = Void
    /\ lastOp' = Op("updateURL", << >>, debounced, TRUE, << >>)
    /\ notified' = << >>
    /\ UNCHANGED << players, gameMode, settings, currentRound, rounds, observers,
                    playerIdCounter, saveTimeout, storage, pc, everIds, burst >>
    /\ held' = HeldAfter
    /\ UNCHANGED teamPage
    /\ clearedSince' = ClearedAfter

-----------------------------------------------------------------------------
(* storage-manager.js called while localStorage works or fails *)

\* a call of a function of storage-manager.js: the item afterwards, how the
\* call ended, and nothing else
StorageCall(name, throws, item, outcome) ==
    /\ Ready
    /\ storage' = item
    /\ returned' = outcome
    /\ lastOp' = Op(name, << >>, [throws |-> throws], TRUE, << >>)
    /\ NoNotify
    /\ UNCHANGED << players, gameMode, settings, currentRound, rounds, observers,
                    playerIdCounter, pc, everIds >>
    /\ held' = HeldAfter
    /\ UNCHANGED teamPage
    /\ clearedSince' = ClearedAfter

saveToStorageCall(snapshot, throws) ==
    LET saved == SaveOutcome(storage, snapshot, throws)
    IN  StorageCall("saveToStorage", throws, saved.storage, saved.outcome)

loadFromStorageCall(throws) ==
    StorageCall("loadFromStorage", throws, storage, LoadOutcome(storage, throws))

clearStorageCall(throws) ==
    LET cleared == ClearOutcome(storage, throws)
    IN  StorageCall("clearStorage", throws, cleared.storage, cleared.outcome)

-----------------------------------------------------------------------------
(* games.js: the game presets' logic *)

Abs(n) == IF n < 0 THEN -n ELSE n

\* the penalty with its sign lost
calculateScore_PenaltyPositive(bid, tricks) ==
    IF bid = tricks THEN bid + 10 ELSE Abs(bid - tricks) * 2

\* pooch.logic.calculateScore
calculateScore(bid, tricks) ==
    IF bid = tricks THEN bid + 10 ELSE -Abs(bid - tricks) * 2

\* the hole number a winning score maps to
WinScore == 121

\* the score returned as it is
calculatePosition_Unclamped(score) == score

\* cribbage.logic.calculatePosition
calculatePosition(score) == Min(score, WinScore)

\* cribbage.logic.checkWin
checkWin(score) == score >= WinScore

\* the most cards a pooch round deals: the largest bid or tricks value
MaxCards == 10

\* a call of one of the functions above with the arguments the page was
\* given: the arguments are kept, the result is what the call returns
LogicCall(input, name, result) ==
    /\ pc = "call"
    /\ lastOp.name = input
    /\ lastOp' = [lastOp EXCEPT !.name = name]
    /\ returned' = Returned(<< result >>)
    /\ UNCHANGED << players, gameMode, settings, currentRound, rounds, observers,
                    playerIdCounter, saveTimeout, urlTimeout, location, historyLength, storage,
                    pc, notified, everIds, requested, burst >>
    /\ held' = HeldAfter
    /\ UNCHANGED teamPage
    /\ clearedSince' = ClearedAfter

calculateScoreCall ==
    LogicCall("bid and tricks", "calculateScore",
              calculateScore(lastOp.arg[1], lastOp.arg[2]))

calculatePositionCall ==
    LogicCall("score", "calculatePosition", calculatePosition(lastOp.arg))

checkWinCall ==
    LogicCall("score", "checkWin", checkWin(lastOp.arg))

-----------------------------------------------------------------------------
(* The handlers of the user interface *)

\* a handler that ends without calling the state container (a dialog that is
\* not confirmed, a delete refused)
NoCall(name, playerId) ==
    /\ Ready
    /\ returned' = Void
    /\ lastOp' = Op(name, playerId, << >>, FALSE, << >>)
    /\ NoNotify
    /\ UNCHANGED << players, gameMode, settings, currentRound, rounds, observers,
                    playerIdCounter, storage, pc, everIds >>
    /\ held' = HeldAfter
    /\ UNCHANGED teamPage
    /\ clearedSince' = ClearedAfter

\* updateAddPlayerButton disables the add button at this many players
MaxPlayerCount == 10

\* the delete handler removes a player only above this many players
MinPlayerCount == 2

\* a click on the add-player button, which is enabled below MaxPlayerCount
addPlayerClick ==
    /\ Len(players) < MaxPlayerCount
    /\ addPlayer(<< >>)

\* a click on a player's delete button
deletePlayerClick(playerId, confirmed) ==
    /\ \E i \in 1..Len(players) : players[i].id = playerId
    /\ IF Len(players) > MinPlayerCount /\ confirmed
       THEN removePlayer(playerId)
       ELSE NoCall("deletePlayerClick", playerId)

\* the data-delta values of the score buttons a mode renders; the pooch table
\* has none
ButtonDeltas(mode) ==
    IF mode = "pooch" THEN {}
    ELSE IF mode = "cribbage" THEN {-1, 1, 2, 5}
    ELSE {-1, 1, 5}

\* a click on a score button of a player
scoreButtonClick(playerId, delta) ==
    /\ \E i \in 1..Len(players) : players[i].id = playerId
    /\ delta \in ButtonDeltas(gameMode)
    /\ updatePlayerScore(playerId, delta)

\* typing in a player's name field
nameInput(playerId, newName) ==
    /\ \E i \in 1..Len(players) : players[i].id = playerId
    /\ updatePlayer(playerId, [name |-> newName])

\* a click on a button of the game-mode selector
gameModeClick(mode, confirmed) ==
    IF confirmed THEN setGameMode(mode) ELSE NoCall("gameModeClick", << >>)

\* a click on the reset button
resetClick(confirmed) ==
    IF confirmed THEN resetGame ELSE NoCall("resetClick", << >>)

\* the sum of (rd.score || 0) over Object.values(roundData)
RECURSIVE SumOfScores(_)
SumOfScores(roundData) ==
    IF DOMAIN roundData = {} THEN 0
    ELSE LET round == CHOOSE r \in DOMAIN roundData : TRUE
             rest == [r \in DOMAIN roundData \ {round} |-> roundData[r]]
         IN  (IF Has(roundData[round], "score") THEN roundData[round].score ELSE 0)
             + SumOfScores(rest)

\* handlePlayerContainerChange: what a change of the bid input (isBid) or the
\* tricks input of a round to value makes of the player
PoochChanged(player, round, isBid, value) ==
    LET live == Has(player.roundData, round)
        record == IF live THEN player.roundData[round] ELSE EmptyObject
        edited == ObjectAssign(record, IF isBid THEN [bid |-> value]
                                                ELSE [tricks |-> value])
        both == Has(edited, "bid") /\ Has(edited, "tricks")
        scored == IF both
                  THEN ObjectAssign(edited,
                           [score |-> calculateScore(edited.bid, edited.tricks)])
                  ELSE edited
        \* the record edited in place is the one player.roundData holds; a new
        \* record is not in player.roundData before updateRoundData puts it there
        seen == IF live THEN ObjectAssign(player.roundData, (round :> scored))
                ELSE player.roundData
    IN  [player EXCEPT
            !.score = IF both THEN SumOfScores(seen) ELSE player.score,
            !.roundData = RoundDataMerged(seen, round, scored)]

\* a change event on a bid or tricks input of the pooch table
poochInputChange(playerId, round, isBid, value) ==
    /\ Ready
    /\ gameMode = "pooch"
    /\ round <= settings.numberOfRounds
    /\ LET i == FindIndex(players, playerId)
       IN  /\ i # 0
           /\ LET g == [toJSON EXCEPT
                           !.players[i] = PoochChanged(players[i], round, isBid, value)]
              IN  SetState(g) /\ notify(g)
           /\ lastOp' = Op("poochInputChange", playerId, << round, isBid, value >>,
                           TRUE, << players[i].score >>)
    /\ returned' = Void
    /\ UNCHANGED << observers, playerIdCounter, storage, pc, everIds >>
    /\ held' = HeldAfter
    /\ UNCHANGED teamPage
    /\ clearedSince' = ClearedAfter

\* a click on the save button of the settings dialog
\* saveSettings(): the six fields of the dialog, the number of rounds read by
\* parseInt from the text of its field, whatever integer that is (an empty
\* field gives NaN, which the integers of this model do not hold: the texts
\* of the model are numerals)
saveSettings(dialog) ==
    /\ ParseInt(<< dialog.numberOfRounds >>) # << >>
    /\ updateSettings([dialog EXCEPT
                          !.numberOfRounds = ParseInt(<< dialog.numberOfRounds >>)[1]])

-----------------------------------------------------------------------------
(* Inputs *)

Ids == {PlayerId(n) : n \in 0..MaxIdCounter}

\* the ids the per-player methods are called with: the first id ever given,
\* and an id no player ever has
TargetIds == {PlayerId(0), PlayerId(MaxIdCounter)}

\* a delta below -MaxScore clamps whatever the score is
Deltas == {-(MaxScore + 1), -1, 1}

Scores == {-1, MaxScore}

Modes == {"custom", "pooch", "cribbage"}

NameInputs == {<< "Al", ",", "Bo" >>}

UpdateInputs == {[name |-> n] : n \in NameInputs}

\* the six fields saveSettings() reads from the settings dialog
DialogSettings ==
    [colorTheme |-> "dark", showRounds |-> TRUE, numberOfRounds |-> 3,
     showBids |-> FALSE, showTricks |-> TRUE, showDeal |-> TRUE]

SettingsInputs == {DialogSettings}

\* the texts typed in the number-of-rounds field of the dialog
DialogRounds == {"3", "0", "-3"}

\* the settings dialog when it is saved
DialogInputs ==
    {[DialogSettings EXCEPT !.numberOfRounds = text] : text \in DialogRounds}

\* the dialog saved with 3 rounds
PoochDialogInputs == {[DialogSettings EXCEPT !.numberOfRounds = "3"]}

RoundInputs == {[bid |-> 1]}

CallbackInputs == {"onChange"}

\* a state an earlier session saved
SavedSnapshot ==
    [players |-> << [id |-> PlayerId(0), name |-> << "Al" >>, score |-> 1,
                     position |-> 1, roundData |-> EmptyObject],
                    [id |-> PlayerId(1), name |-> << "Bo" >>, score |-> 0,
                     position |-> 0, roundData |-> EmptyObject] >>,
     gameMode |-> "cribbage",
     settings |-> DialogSettings,
     currentRound |-> 2,
     rounds |-> << >>]

\* a snapshot with absent and falsy root fields
PartialSnapshot ==
    [gameMode |-> "", currentRound |-> 0]

RestoreInputs == {SavedSnapshot, PartialSnapshot}

\* the query string and the stored item a session may start with
LoadInputs ==
    { << EmptyObject, << >> >>,
      << EmptyObject, saveToStorage(SavedSnapshot) >>,
      << [players |-> << "Al", ",", " ", "Bo" >>, game |-> "pooch",
          numRounds |-> "abc", showBids |-> "false"],
         saveToStorage(SavedSnapshot) >> }

\* the rounds and the values of the bid and tricks inputs that are changed
RoundNumbers == 1..MaxRound

PoochValues == 0..MaxBid

\* the session starts of the player management: no query string, and a link
\* that names one player
PlayerLoadInputs ==
    { << EmptyObject, << >> >>,
      << [players |-> << "Al" >>, game |-> "custom"], << >> >> }

\* the players whose delete button is clicked: the first and the last
EndIds ==
    IF players = << >> THEN {}
    ELSE {players[1].id, players[Len(players)].id}

\* the scores setPlayerScore is given on the cribbage board: below zero, one
\* short of the last hole, and beyond it
PegScores == {-1, WinScore - 1, MaxPegScore}

\* the session starts of the storage adapter: nothing stored, a saved state,
\* and a stored text that is not JSON
StorageLoadInputs ==
    { << EmptyObject, << >> >>,
      << EmptyObject, saveToStorage(SavedSnapshot) >>,
      << EmptyObject, << CorruptText >> >> }

\* the model adds a player only below its bounds on players and ids
CanAdd(maxPlayers, maxIds) ==
    Len(players) < maxPlayers /\ playerIdCounter < maxIds

\* the model raises a score only up to its bound
CanScore(playerId, delta, maxScore) ==
    LET i == FindIndex(players, playerId)
    IN  i # 0 => players[i].score + delta <= maxScore

-----------------------------------------------------------------------------
(* Specifications *)

\* the page before init() runs, with any of the given load inputs
Loaded(inputs) ==
    /\ players = NewGameState.players
    /\ gameMode = NewGameState.gameMode
    /\ settings = NewGameState.settings
    /\ currentRound = NewGameState.currentRound
    /\ rounds = NewGameState.rounds
    /\ observers = << >>
    /\ playerIdCounter = 0
    /\ saveTimeout = << >>
    /\ urlTimeout = << >>
    /\ \E input \in inputs : location = input[1] /\ storage = input[2]
    /\ historyLength = 1
    /\ held = << >>
    /\ teamPage = TeamPageLoaded
    /\ clearedSince = FALSE
    /\ pc = "load"
    /\ lastOp = Op("load", << >>, << >>, TRUE, << >>)
    /\ returned = Void
    /\ notified = << >>
    /\ everIds = {}
    /\ requested = [state |-> << >>, url |-> << >>]
    /\ burst = [requests |-> 0, writes |-> 0]

InitLoad == Loaded(LoadInputs)

\* a session that starts without a query string and without a stored item
Init ==
    /\ InitLoad
    /\ location = EmptyObject
    /\ historyLength = 1
    /\ held = << >>
    /\ teamPage = TeamPageLoaded
    /\ clearedSince = FALSE
    /\ storage = << >>

\* the state container driven through its methods; the two timers stay pending
Next ==
    \/ init
    \/ \E callback \in CallbackInputs : subscribe(callback)
    \/ CanAdd(MaxPlayers, MaxIdCounter) /\ addPlayer(<< >>)
    \/ \E id \in Ids : removePlayer(id)
    \/ \E id \in TargetIds, updates \in UpdateInputs : updatePlayer(id, updates)
    \/ \E id \in TargetIds, delta \in Deltas :
           CanScore(id, delta, MaxScore) /\ updatePlayerScore(id, delta)
    \/ \E id \in TargetIds, score \in Scores : setPlayerScore(id, score)
    \/ \E mode \in Modes : setGameMode(mode)
    \/ \E newSettings \in SettingsInputs : updateSettings(newSettings)
    \/ \E id \in TargetIds, data \in RoundInputs : updateRoundData(id, 1, data)
    \/ resetGame
    \/ \E data \in RestoreInputs : restore(data)

Spec == Init /\ [][Next]_vars

\* the state container with its two debounce timers and the passing of time
NextPersist ==
    \/ init
    \/ CanScore(PlayerId(0), 1, MaxScore) /\ updatePlayerScore(PlayerId(0), 1)
    \/ setGameMode("pooch")
    \/ restore(SavedSnapshot)
    \/ \E debounced \in BOOLEAN : updateURLCall(SavedSnapshot, debounced)
    \/ Tick
    \/ SaveTimerFires
    \/ URLTimerFires

SpecPersist == Init /\ [][NextPersist]_vars

\* the session start from every load input, and the player management after it
NextLoad ==
    \/ init
    \/ CanAdd(MaxPlayers, MaxIdCounter) /\ addPlayer(<< >>)
    \/ \E id \in Ids : removePlayer(id)
    \/ \E id \in TargetIds, delta \in Deltas :
           CanScore(id, delta, MaxScore) /\ updatePlayerScore(id, delta)
    \/ \E data \in RestoreInputs : restore(data)

SpecLoad == InitLoad /\ [][NextLoad]_vars

\* the pooch table: mode switches, score buttons, bid and tricks inputs of
\* the first player, settings and reset
NextPooch ==
    \/ init
    \/ \E mode \in Modes, confirmed \in BOOLEAN : gameModeClick(mode, confirmed)
    \/ \E delta \in {-1, 1} :
           CanScore(PlayerId(0), delta, MaxScore) /\ scoreButtonClick(PlayerId(0), delta)
    \/ \E round \in RoundNumbers, isBid \in BOOLEAN, value \in PoochValues :
           poochInputChange(PlayerId(0), round, isBid, value)
    \/ \E dialog \in PoochDialogInputs : saveSettings(dialog)
    \/ \E confirmed \in BOOLEAN : resetClick(confirmed)

SpecPooch == Init /\ [][NextPooch]_vars

\* the player management of the page: add and delete clicks after a session
\* start
NextPlayers ==
    \/ init
    \/ playerIdCounter < MaxClickIds /\ addPlayerClick
    \/ \E id \in EndIds, confirmed \in BOOLEAN : deletePlayerClick(id, confirmed)

SpecPlayers == Loaded(PlayerLoadInputs) /\ [][NextPlayers]_vars

\* the arguments the game logic is called with: a bid and a number of tricks
\* of a pooch round, or a cribbage score
LogicInputs ==
    {Op("bid and tricks", << >>, << bid, tricks >>, TRUE, << >>) :
         bid \in 0..MaxCards, tricks \in 0..MaxCards}
    \cup {Op("score", << >>, score, TRUE, << >>) : score \in 0..MaxCribScore}

\* games.js on its own: a fresh container, and one call of the game logic
InitGames ==
    /\ players = NewGameState.players
    /\ gameMode = NewGameState.gameMode
    /\ settings = NewGameState.settings
    /\ currentRound = NewGameState.currentRound
    /\ rounds = NewGameState.rounds
    /\ observers = << >>
    /\ playerIdCounter = 0
    /\ saveTimeout = << >>
    /\ urlTimeout = << >>
    /\ location = EmptyObject
    /\ historyLength = 1
    /\ held = << >>
    /\ teamPage = TeamPageLoaded
    /\ clearedSince = FALSE
    /\ storage = << >>
    /\ pc = "call"
    /\ lastOp \in LogicInputs
    /\ returned = Void
    /\ notified = << >>
    /\ everIds = {}
    /\ requested = [state |-> << >>, url |-> << >>]
    /\ burst = [requests |-> 0, writes |-> 0]

NextGames ==
    \/ calculateScoreCall
    \/ calculatePositionCall
    \/ checkWinCall

SpecGames == InitGames /\ [][NextGames]_vars

\* the first player's score on and off the cribbage board, up to the last
\* hole and beyond
NextCribbage ==
    \/ init
    \/ \E mode \in {"custom", "cribbage"} : setGameMode(mode)
    \/ \E score \in PegScores : setPlayerScore(PlayerId(0), score)
    \/ \E delta \in {-1, 5} :
           CanScore(PlayerId(0), delta, MaxPegScore)
               /\ updatePlayerScore(PlayerId(0), delta)

SpecCribbage == Init /\ [][NextCribbage]_vars

\* the storage adapter called directly, with localStorage working or
\* throwing, while the game goes on
NextStorage ==
    \/ init
    \/ CanScore(PlayerId(0), 1, MaxScore) /\ updatePlayerScore(PlayerId(0), 1)
    \/ \E mode \in Modes : setGameMode(mode)
    \/ \E throws \in BOOLEAN : saveToStorageCall(toJSON, throws)
    \/ \E throws \in BOOLEAN : loadFromStorageCall(throws)
    \/ \E throws \in BOOLEAN : clearStorageCall(throws)

SpecStorage == Loaded(StorageLoadInputs) /\ [][NextStorage]_vars

-----------------------------------------------------------------------------
(* Properties *)

\* the player the last call was made on, when it found one
Target == players[FindIndex(players, lastOp.id)]

\* C1: after updatePlayerScore(id, delta) on an existing player the score is
\* max(0, old score + delta), after setPlayerScore(id, score) it is
\* max(0, score), and in both cases it is not negative
C1_ScoreClampedAtZero ==
    /\ (lastOp.name = "updatePlayerScore" /\ lastOp.found) =>
           /\ Target.score = Max(0, lastOp.before[1] + lastOp.arg)
           /\ Target.score >= 0
    /\ (lastOp.name = "setPlayerScore" /\ lastOp.found) =>
           /\ Target.score = Max(0, lastOp.arg)
           /\ Target.score >= 0

\* updatePlayerScore has just clamped a score that would have gone below zero
C1_Witness ==
    /\ lastOp.name = "updatePlayerScore"
    /\ lastOp.found
    /\ lastOp.before[1] > 0
    /\ lastOp.before[1] + lastOp.arg < 0
    /\ Target.score = 0

\* C2: restoring the serialization of any reachable state into a freshly
\* constructed container gives the same players, gameMode, settings,
\* currentRound and rounds
C2_RoundTrip ==
    LET restored == fromJSON(NewGameState, toJSON)
    IN  /\ restored.players = players
        /\ restored.gameMode = gameMode
        /\ restored.settings = settings
        /\ restored.currentRound = currentRound
        /\ restored.rounds = rounds

\* a state that differs from a fresh container in every field a mutation or a
\* restore can change
C2_Witness ==
    /\ currentRound # NewGameState.currentRound
    /\ gameMode # NewGameState.gameMode
    /\ settings # NewGameState.settings
    /\ \E i \in 1..Len(players) :
           /\ players[i].score > 0
           /\ players[i].roundData # EmptyObject
           /\ players[i].name = << "Al", ",", "Bo" >>

\* C3: the id addPlayer gives has a numeric suffix greater than that of every
\* id the container has held before, restored or added, removed or not; so it
\* differs from all of them
C3_NewIdNeverUsedBefore ==
    lastOp.name = "addPlayer" =>
        \A used \in lastOp.before :
            IdNum(players[Len(players)].id) > IdNum(used)

\* a player is added next to a restored player, after another was removed
C3_Witness ==
    /\ lastOp.name = "addPlayer"
    /\ Len(players) = 2
    /\ players[1].name = << "Bo" >>
    /\ Cardinality(lastOp.before) = 2

\* C4: after init() the container holds the URL state alone when the query
\* string decodes to one, else the restored saved state when there is one,
\* else the default state with the two players 'Player 1' and 'Player 2'
C4_LoadPriority ==
    lastOp.name = "init" =>
        LET urlState == deserializeFromURL(location)
            savedState == loadFromStorage(storage)
        IN  IF urlState # << >>
            THEN toJSON = urlState[1]
            ELSE IF savedState # << >>
            THEN toJSON = fromJSON(NewGameState, savedState[1])
            ELSE /\ Len(players) = 2
                 /\ players[1].name = << "Player 1" >>
                 /\ players[2].name = << "Player 2" >>
                 /\ \A i \in 1..2 : /\ players[i].score = 0
                                    /\ players[i].position = 0
                                    /\ players[i].roundData = EmptyObject
                 /\ [toJSON EXCEPT !.players = << >>] = NewGameState

\* init() has run with both a URL state and a saved state to choose from
C4_Witness ==
    /\ lastOp.name = "init"
    /\ deserializeFromURL(location) # << >>
    /\ loadFromStorage(storage) # << >>
    /\ deserializeFromURL(location)[1] # loadFromStorage(storage)[1]

\* C5: one write per burst of requests, and the blob the save timer
\* writes is the serialization of the state as it was at the last
\* persistState request
C5_WritesStateAtLastRequest ==
    /\ burst.writes = IF saveTimeout = << >> /\ burst.requests >= 1 THEN 1 ELSE 0
    /\ lastOp.name = "saveTimer" =>
           storage = << JSONStringify(requested.state[1]) >>

\* C6: the URL timer never writes an encoding older than the most
\* recent updateURL request, and once no write-back is pending the address bar
\* holds the encoding of the most recent request
C6_NoStaleWriteBack ==
    /\ lastOp.name = "urlTimer" => location = requested.url[1]
    /\ (urlTimeout = << >> /\ requested.url # << >>) =>
           location = requested.url[1]

\* the mutating calls that always notify, and those that notify when they
\* find the player
AlwaysNotifying ==
    {"addPlayer", "removePlayer", "setGameMode", "updateSettings", "resetGame"}

NotifyingWhenFound ==
    {"updatePlayer", "updatePlayerScore", "setPlayerScore", "updateRoundData"}

\* C7: a mutating call invokes every subscribed callback once, in subscription
\* order, each with the state the call has left; subscribe invokes none
C7_NotifyContract ==
    /\ (\/ lastOp.name \in AlwaysNotifying
        \/ lastOp.name \in NotifyingWhenFound /\ lastOp.found) =>
           notified = [i \in 1..Len(observers) |->
                          [callback |-> observers[i], state |-> toJSON]]
    /\ lastOp.name = "subscribe" => notified = << >>

\* a score change has been notified to two observers, renderUI first
C7_Witness ==
    /\ lastOp.name = "updatePlayerScore"
    /\ lastOp.found
    /\ Len(notified) = 2
    /\ notified[1].callback = "renderUI"
    /\ notified[2].callback = "onChange"
    /\ notified[2].state.players[1].score > 0

\* what decoding the URL encoding of the current state gives
Decoded == deserializeFromURL(serializeToURL(toJSON))

C9_SharedURLKeepsConfig ==
    /\ Decoded # << >>
    /\ Decoded[1].gameMode = gameMode
    /\ Decoded[1].settings = settings
    /\ Len(Decoded[1].players) = Len(players)
    /\ \A i \in 1..Len(players) : Decoded[1].players[i].name = players[i].name

C11_ModeChangeResetsScores ==
    [][(lastOp'.name = "setGameMode" /\ gameMode' # gameMode) =>
           \A i \in 1..Len(players') : players'[i].score = 0]_vars

\* C12: resetGame() sets every player's score and position to 0 and roundData
\* to empty, sets currentRound to 1 and empties rounds, and leaves the number
\* of players, their ids, names and order, gameMode and settings unchanged
C12_ResetGameFrame ==
    [][lastOp'.name = "resetGame" =>
           /\ currentRound' = 1
           /\ rounds' = << >>
           /\ gameMode' = gameMode
           /\ settings' = settings
           /\ Len(players') = Len(players)
           /\ \A i \in 1..Len(players) :
                  players'[i] = [id |-> players[i].id,
                                 name |-> players[i].name,
                                 score |-> 0,
                                 position |-> 0,
                                 roundData |-> EmptyObject]]_vars

\* resetGame has reset a game in round 2 that had a position and round data,
\* with a mode, settings and a name that are not the defaults
C12_Witness ==
    /\ lastOp.name = "resetGame"
    /\ lastOp.before = << 2, TRUE, TRUE >>
    /\ gameMode = "cribbage"
    /\ settings = DialogSettings
    /\ Len(players) = 2
    /\ players[1].name = << "Al", ",", "Bo" >>

\* C13: once the session has started, the number of players is at least 2 and
\* at most 10, whatever the user adds or deletes
C13_PlayerCountInRange ==
    pc = "ready" => Len(players) \in MinPlayerCount..MaxPlayerCount

\* C14: every player's score is at least 0 in every reachable state, the
\* states the bid and tricks inputs of the pooch table lead to included
C14_ScoreNeverNegative ==
    \A i \in 1..Len(players) : players[i].score >= 0

\* C15: in pooch mode each player's score is the sum of the score sub-fields
\* of the round records its roundData holds
C15_PoochTotalIsSum ==
    (pc = "ready" /\ gameMode = "pooch") =>
        \A i \in 1..Len(players) :
            players[i].score = SumOfScores(players[i].roundData)

\* C16: for bid and tricks in 0..10, calculateScore(bid, tricks) is bid + 10
\* when they are equal and minus twice their distance otherwise; so (5,5)
\* gives 15, (4,3) gives -2, (0,0) gives 10 and (3,0) gives -6
C16_PoochRoundScore ==
    lastOp.name = "calculateScore" =>
        LET bid == lastOp.arg[1]
            tricks == lastOp.arg[2]
        IN  /\ ~returned.threw
            /\ bid = tricks => returned.value = << bid + 10 >>
            /\ bid # tricks =>
                   returned.value = << -2 * (Max(bid, tricks) - Min(bid, tricks)) >>
            /\ lastOp.arg = << 5, 5 >> => returned.value = << 15 >>
            /\ lastOp.arg = << 4, 3 >> => returned.value = << -2 >>
            /\ lastOp.arg = << 0, 0 >> => returned.value = << 10 >>
            /\ lastOp.arg = << 3, 0 >> => returned.value = << -6 >>

\* calculateScore has been called with a bid of 3 and no trick taken
C16_Witness ==
    /\ lastOp.name = "calculateScore"
    /\ lastOp.arg = << 3, 0 >>
    /\ returned.value = << -6 >>

\* C17: for a score of 0 or more, calculatePosition(score) is the score up to
\* 121 and 121 above it, and checkWin(score) is true exactly from 121 on
C17_CribbageMapping ==
    /\ lastOp.name = "calculatePosition" =>
           /\ returned.value = << IF lastOp.arg <= 121 THEN lastOp.arg ELSE 121 >>
           /\ lastOp.arg = 0 => returned.value = << 0 >>
           /\ lastOp.arg = 200 => returned.value = << 121 >>
    /\ lastOp.name = "checkWin" =>
           /\ returned.value = << lastOp.arg >= 121 >>
           /\ lastOp.arg = 120 => returned.value = << FALSE >>
           /\ lastOp.arg = 121 => returned.value = << TRUE >>

\* calculatePosition has been called with a score beyond the last hole
C17_Witness ==
    /\ lastOp.name = "calculatePosition"
    /\ lastOp.arg = 200
    /\ returned.value = << 121 >>

\* whether the last call was a score mutation that found its player while the
\* mode is cribbage
CribbageScoreMutation ==
    /\ gameMode = "cribbage"
    /\ lastOp.name \in {"updatePlayerScore", "setPlayerScore"}
    /\ lastOp.found

\* C18 as stated: in cribbage mode, after updatePlayerScore or setPlayerScore
\* on an existing player, the player's position is min(score, 121) and so
\* lies in 0..121
C18_PositionIsCappedScore ==
    CribbageScoreMutation =>
        /\ Target.position = Min(Target.score, 121)
        /\ Target.position \in 0..121

\* C18 as amended: in cribbage mode, after updatePlayerScore or
\* setPlayerScore on an existing player, the player's position is its score,
\* which is not negative: min(score, 121) while the score is at most 121, and
\* more than 121 when the score is
C18_PositionIsScore ==
    CribbageScoreMutation =>
        /\ Target.position = Target.score
        /\ Target.position >= 0
        /\ Target.score <= 121 => Target.position = Min(Target.score, 121)
        /\ Target.score > 121 => Target.position > 121

\* a score button has taken a cribbage score beyond the last hole
C18_Witness ==
    /\ CribbageScoreMutation
    /\ lastOp.name = "updatePlayerScore"
    /\ lastOp.before[1] <= 121
    /\ Target.score > 121
    /\ Target.position = Target.score

\* C19: saveToStorage and clearStorage return normally, and without effect on
\* the stored item when the localStorage call throws; loadFromStorage returns
\* normally, and null when the localStorage call throws, when nothing is
\* stored and when the stored text is not JSON
C19_StorageFailuresSwallowed ==
    [][/\ lastOp'.name \in {"saveToStorage", "clearStorage"} =>
              /\ returned' = Void
              /\ lastOp'.arg.throws => storage' = storage
       /\ lastOp'.name = "loadFromStorage" =>
              /\ ~returned'.threw
              /\ storage' = storage
              /\ (\/ lastOp'.arg.throws
                  \/ storage = << >>
                  \/ storage = << CorruptText >>) => returned'.value = << >>]_vars

\* loadFromStorage has returned null because localStorage threw while a
\* saved state was stored
C19_Witness ==
    /\ lastOp.name = "loadFromStorage"
    /\ lastOp.arg.throws
    /\ storage # << >>
    /\ storage # << CorruptText >>
    /\ returned = Void

\* the methods that take a player id
PlayerMethods ==
    {"removePlayer", "updatePlayer", "updatePlayerScore", "setPlayerScore",
     "updateRoundData"}

\* C20: removePlayer, updatePlayer, updatePlayerScore, setPlayerScore and
\* updateRoundData, called with an id no player of the container has, return
\* normally and leave players, gameMode, settings, currentRound and rounds
\* as they were
C20_MissingIdIsNoOp ==
    [][(/\ lastOp'.name \in PlayerMethods
        /\ \A i \in 1..Len(players) : players[i].id # lastOp'.id) =>
           /\ ~returned'.threw
           /\ players' = players
           /\ gameMode' = gameMode
           /\ settings' = settings
           /\ currentRound' = currentRound
           /\ rounds' = rounds]_vars

\* updatePlayerScore has been called with an id no player has, on a game
\* with two players and a score
C20_Witness ==
    /\ lastOp.name = "updatePlayerScore"
    /\ ~lastOp.found
    /\ Len(players) = 2
    /\ \A i \in 1..Len(players) : players[i].id # lastOp.id
    /\ players[1].score > 0

-----------------------------------------------------------------------------
(* url-manager.js on its own: one call of the decoder on a query string *)

\* << >> for a parameter the query string does not carry, else << value >>
Optional(values) == {<< >>} \cup {<< v >> : v \in values}

\* the query string that carries the parameters given in `given`
QueryOf(given) ==
    [key \in {k \in DOMAIN given : given[k] # << >>} |-> given[key][1]]

DecodeInputs ==
    {QueryOf([game |-> game, theme |-> theme, numRounds |-> numRounds,
              showRounds |-> showRounds, showBids |-> showBids,
              players |-> names]) :
        game \in Optional({"", "pooch"}),
        theme \in Optional({"dark"}),
        numRounds \in Optional({"abc", "0", "5", "-3", "3abc"}),
        showRounds \in Optional({"false"}),
        showBids \in Optional({"false", "true", "0"}),
        names \in Optional({<< >>, << "Al" >>, << "Al", ",", " ", "Bo" >>})}

InitDecode ==
    /\ players = NewGameState.players
    /\ gameMode = NewGameState.gameMode
    /\ settings = NewGameState.settings
    /\ currentRound = NewGameState.currentRound
    /\ rounds = NewGameState.rounds
    /\ observers = << >>
    /\ playerIdCounter = 0
    /\ saveTimeout = << >>
    /\ urlTimeout = << >>
    /\ location \in DecodeInputs
    /\ historyLength = 1
    /\ held = << >>
    /\ teamPage = TeamPageLoaded
    /\ clearedSince = FALSE
    /\ storage = << >>
    /\ pc = "call"
    /\ lastOp = Op("query", << >>, << >>, TRUE, << >>)
    /\ returned = Void
    /\ notified = << >>
    /\ everIds = {}
    /\ requested = [state |-> << >>, url |-> << >>]
    /\ burst = [requests |-> 0, writes |-> 0]

\* deserializeFromURL() called on the query string of the address bar
deserializeFromURLCall ==
    /\ pc = "call"
    /\ lastOp.name = "query"
    /\ lastOp' = [lastOp EXCEPT !.name = "deserializeFromURL"]
    /\ returned' = Returned(deserializeFromURL(location))
    /\ UNCHANGED << players, gameMode, settings, currentRound, rounds, observers,
                    playerIdCounter, saveTimeout, urlTimeout, location, historyLength, storage,
                    pc, notified, everIds, requested, burst >>
    /\ held' = HeldAfter
    /\ UNCHANGED teamPage
    /\ clearedSince' = ClearedAfter

NextDecode == deserializeFromURLCall

SpecDecode == InitDecode /\ [][NextDecode]_vars

\* the decoder has returned
Decoding == lastOp.name = "deserializeFromURL"

\* the number of "," in a text
Commas(str) == Cardinality({i \in 1..Len(str) : str[i] = ","})

\* what the claim states of every decoded snapshot whatever the query string:
\* the boolean settings, currentRound, rounds and the shape of the players
DecodedCommon(d) ==
    /\ d.settings.showRounds = ~(Has(location, "showRounds")
                                    /\ location.showRounds = "false")
    /\ d.settings.showBids = ~(Has(location, "showBids")
                                  /\ location.showBids = "false")
    /\ d.settings.showTricks = ~(Has(location, "showTricks")
                                    /\ location.showTricks = "false")
    /\ d.settings.showDeal = ~(Has(location, "showDeal")
                                  /\ location.showDeal = "false")
    /\ d.currentRound = 1
    /\ d.rounds = << >>
    /\ \A i \in 1..Len(d.players) :
          /\ d.players[i].id = << "player", i - 1 >>
          /\ d.players[i].score = 0
          /\ d.players[i].position = 0
          /\ d.players[i].roundData = EmptyObject

\* C21, as stated: deserializeFromURL returns null exactly when the query
\* string is empty; otherwise gameMode is the 'game' value or 'custom' if it is
\* absent, the four show* settings are true unless the literal 'false',
\* numberOfRounds is the numeric 'numRounds' value or 10 if it is missing or
\* not numeric, currentRound is 1, rounds is empty, and there is one player per
\* comma-separated name with ids player_0, player_1, ..., score 0, position 0
\* and empty roundData
C21_DecodeContractAsStated ==
    Decoding =>
        IF DOMAIN location = {} THEN returned.value = << >>
        ELSE /\ returned.value # << >>
             /\ LET d == returned.value[1]
                IN  /\ d.gameMode = IF Has(location, "game")
                                    THEN location.game ELSE "custom"
                    /\ d.settings.numberOfRounds =
                          IF /\ Has(location, "numRounds")
                             /\ \E n \in Numerals : ToString(n) = location.numRounds
                          THEN CHOOSE n \in Numerals :
                                   ToString(n) = location.numRounds
                          ELSE 10
                    /\ Len(d.players) = IF Has(location, "players")
                                        THEN Commas(location.players) + 1
                                        ELSE 0
                    /\ DecodedCommon(d)

\* C21, amended: as stated, except that an empty 'game' value gives 'custom'
\* too, numberOfRounds is the integer parseInt reads at the start of the
\* 'numRounds' value or 10 if there is none or it is 0, and an empty 'players'
\* value gives no player
C21_DecodeContract ==
    Decoding =>
        IF DOMAIN location = {} THEN returned.value = << >>
        ELSE /\ returned.value # << >>
             /\ LET d == returned.value[1]
                    read == ParseInt(Get(location, "numRounds"))
                IN  /\ d.gameMode = IF Has(location, "game") /\ location.game # ""
                                    THEN location.game ELSE "custom"
                    /\ d.settings.numberOfRounds =
                          IF read # << >> /\ read[1] # 0 THEN read[1] ELSE 10
                    /\ Len(d.players) =
                          IF Has(location, "players") /\ location.players # << >>
                          THEN Commas(location.players) + 1
                          ELSE 0
                    /\ DecodedCommon(d)

\* decoded: an empty 'game', 'numRounds' of 0, a 'false' setting and two names
C21_Witness ==
    /\ Decoding
    /\ Has(location, "game") /\ location.game = ""
    /\ Has(location, "numRounds") /\ location.numRounds = "0"
    /\ Has(location, "showBids") /\ location.showBids = "false"
    /\ returned.value # << >>
    /\ Len(returned.value[1].players) = 2
    /\ returned.value[1].settings.numberOfRounds = 10

-----------------------------------------------------------------------------
(* The number of rounds: session starts and settings saves *)

\* a stored state whose settings carry no usable number of rounds
ZeroRoundsSnapshot ==
    [SavedSnapshot EXCEPT !.settings = [numberOfRounds |-> 0]]

\* the session starts of the settings: query strings with and without a
\* usable 'numRounds', and stored items
SettingsLoadInputs ==
    {<< query, item >> :
        query \in {EmptyObject} \cup
                  {[game |-> "pooch", numRounds |-> text] :
                       text \in {"abc", "0", "5", "-3"}},
        item \in {<< >>, saveToStorage(SavedSnapshot), << CorruptText >>,
                  saveToStorage(ZeroRoundsSnapshot)}}

NextSettings ==
    \/ init
    \/ \E dialog \in DialogInputs : saveSettings(dialog)
    \/ Tick
    \/ SaveTimerFires
    \/ URLTimerFires

SpecSettings == Loaded(SettingsLoadInputs) /\ [][NextSettings]_vars

\* C22: in every reachable state (session start from any query string or
\* stored item, any sequence of settings saves) settings.numberOfRounds is an
\* integer of at least 1
C22_NumberOfRoundsPositive ==
    settings.numberOfRounds >= 1

-----------------------------------------------------------------------------
(* The session history of the browser *)

\* C23: updateURL never creates a history entry: whatever step is taken, the
\* debounced and the immediate write-back included, the number of history
\* entries stays what it was, and only the URL of the current entry changes
C23_NoHistoryEntry ==
    [][historyLength' = historyLength]_vars

\* updateURL(state, false) has just replaced the URL of the current entry
C23_Witness ==
    /\ lastOp.name = "updateURL"
    /\ lastOp.arg = FALSE
    /\ location = serializeToURL(SavedSnapshot)
    /\ historyLength = 1

-----------------------------------------------------------------------------
(* fromJSON on snapshots that carry some of the root fields *)

\* snapshots with an empty player list and part of the settings, and with the
\* rounds only
RestoreFrameInputs ==
    RestoreInputs \cup
    {[players |-> << >>, settings |-> [colorTheme |-> "dark"]],
     [rounds |-> << >>, currentRound |-> 2]}

NextRestore ==
    \/ init
    \/ CanAdd(MaxPlayers, MaxIdCounter) /\ addPlayer(<< >>)
    \/ CanScore(PlayerId(0), 1, MaxScore) /\ updatePlayerScore(PlayerId(0), 1)
    \/ \E mode \in Modes : setGameMode(mode)
    \/ \E newSettings \in SettingsInputs : updateSettings(newSettings)
    \/ \E data \in RestoreFrameInputs : restore(data)

SpecRestore == Init /\ [][NextRestore]_vars

\* C24, as stated: restore(snapshot) replaces each of the root fields players,
\* gameMode, settings, currentRound and rounds that is present in the snapshot
\* with the snapshot's value, whatever that value is (0, an empty string and an
\* empty sequence included), and leaves every absent root field as it is
C24_RestoreFrameAsStated ==
    [][lastOp'.name = "fromJSON" =>
          LET data == lastOp'.arg
          IN  /\ players' = IF Has(data, "players") THEN data.players ELSE players
              /\ gameMode' = IF Has(data, "gameMode")
                             THEN data.gameMode ELSE gameMode
              /\ settings' = IF Has(data, "settings")
                             THEN data.settings ELSE settings
              /\ currentRound' = IF Has(data, "currentRound")
                                 THEN data.currentRound ELSE currentRound
              /\ rounds' = IF Has(data, "rounds") THEN data.rounds ELSE rounds]_vars

\* C24, amended: restore(snapshot) replaces players and rounds when they are
\* present (an empty sequence included), gameMode when it is present and not
\* the empty string, and currentRound when it is present and not 0, with the
\* snapshot's value; of a present settings object it takes every key the
\* snapshot has and keeps the current value of every other key; and it leaves
\* every other root field as it is
C24_RestoreFrame ==
    [][lastOp'.name = "fromJSON" =>
          LET data == lastOp'.arg
          IN  /\ players' = IF Has(data, "players") THEN data.players ELSE players
              /\ gameMode' = IF Has(data, "gameMode") /\ data.gameMode # ""
                             THEN data.gameMode ELSE gameMode
              /\ settings' =
                    IF Has(data, "settings")
                    THEN [key \in DOMAIN settings \cup DOMAIN data.settings |->
                             IF key \in DOMAIN data.settings
                             THEN data.settings[key] ELSE settings[key]]
                    ELSE settings
              /\ currentRound' = IF Has(data, "currentRound") /\ data.currentRound # 0
                                 THEN data.currentRound ELSE currentRound
              /\ rounds' = IF Has(data, "rounds") THEN data.rounds ELSE rounds]_vars

\* a snapshot with an empty gameMode and currentRound 0 has been restored into
\* a container that had left the defaults, and both fields are as they were
C24_Witness ==
    /\ lastOp.name = "fromJSON"
    /\ lastOp.arg = PartialSnapshot
    /\ gameMode = "pooch"
    /\ currentRound = 2
    /\ Len(players) = 0

-----------------------------------------------------------------------------
(* toJSON() and the holder of the snapshot it returns *)

\* s = gameState.toJSON(): the holder gets references to the players array,
\* the player objects and the settings object of the container
serializeCall ==
    /\ Ready
    /\ held' = << [taken |-> toJSON, now |-> toJSON, edited |-> FALSE,
                   live |-> [players |-> TRUE, objects |-> TRUE,
                             settings |-> TRUE]] >>
    /\ NoNotify
    /\ returned' = Returned(<< toJSON >>)
    /\ lastOp' = Op("toJSON", << >>, << >>, TRUE, << >>)
    /\ UNCHANGED << players, gameMode, settings, currentRound, rounds, observers,
                    playerIdCounter, storage, pc, everIds, teamPage >>
    /\ clearedSince' = ClearedAfter

\* the holder writes s.settings.colorTheme = theme: the write goes to the
\* settings object of the container while s still refers to it
snapshotEdit(theme) ==
    /\ Ready
    /\ held # << >>
    /\ held' = << [held[1] EXCEPT !.now.settings.colorTheme = theme,
                                  !.edited = TRUE] >>
    /\ settings' = IF held[1].live.settings
                   THEN [settings EXCEPT !.colorTheme = theme]
                   ELSE settings
    /\ NoNotify
    /\ returned' = Void
    /\ lastOp' = Op("snapshotEdit", << >>, theme, TRUE, toJSON)
    /\ UNCHANGED << players, gameMode, currentRound, rounds, observers,
                    playerIdCounter, storage, pc, everIds, teamPage >>
    /\ clearedSince' = ClearedAfter

NextSnapshot ==
    \/ init
    \/ serializeCall
    \/ CanAdd(MaxPlayers + 1, MaxIdCounter) /\ addPlayer(<< >>)
    \/ removePlayer(PlayerId(0))
    \/ CanScore(PlayerId(0), 1, MaxScore) /\ updatePlayerScore(PlayerId(0), 1)
    \/ \E newSettings \in SettingsInputs : updateSettings(newSettings)
    \/ updateRoundData(PlayerId(1), 1, [bid |-> 1])
    \/ resetGame
    \/ restore(SavedSnapshot)
    \/ snapshotEdit("dark")

SpecSnapshot == Init /\ [][NextSnapshot]_vars

\* C25: serialize() returns a fully detached snapshot: after s = serialize()
\* no later mutation of the container changes the contents of s (as long as
\* its holder does not write to s, s is what it was when it was taken), and a
\* write of the holder to s does not change the container
C25_SnapshotDetached ==
    /\ (held # << >> /\ ~held[1].edited) => held[1].now = held[1].taken
    /\ lastOp.name = "snapshotEdit" => toJSON = lastOp.before

-----------------------------------------------------------------------------
(* script.js: the two-team scoreboard *)

MaxTeamScore == 4

Teams == {"A", "B"}

\* the deltas of the calls: the +1 and -1 buttons, and larger steps
TeamDeltas == {-3, -1, 1, 2}

\* the added delta left below zero
TeamScoreAfter_Unclamped(score, delta) == score + delta

\* scores[team] after updateScore(team, delta)
TeamScoreAfter(score, delta) ==
    IF score + delta < 0 THEN 0 ELSE score + delta

\* updateDisplay(team) on the page: the score element shows the score (the
\* scale animation changes the style of the element only)
updateDisplay(page, team) ==
    [page EXCEPT !.shown[team] = ToString(page.scores[team])]

\* the steps of the two-team scoreboard leave the game tracker alone
TeamStep(name, team, delta) ==
    /\ pc = "teams"
    /\ lastOp' = Op(name, team, delta, TRUE, teamPage.scores)
    /\ returned' = Void
    /\ UNCHANGED << players, gameMode, settings, currentRound, rounds, observers,
                    playerIdCounter, saveTimeout, urlTimeout, location,
                    historyLength, storage, pc, notified, everIds, requested,
                    burst, held >>
    /\ clearedSince' = ClearedAfter

updateScore(team, delta) ==
    /\ teamPage' =
          updateDisplay([teamPage EXCEPT
                            !.scores[team] = TeamScoreAfter(@, delta)], team)
    /\ TeamStep("updateScore", team, delta)

resetScores ==
    /\ teamPage' = updateDisplay(updateDisplay([teamPage EXCEPT
                                                    !.scores = [A |-> 0, B |-> 0]],
                                               "A"), "B")
    /\ TeamStep("resetScores", << >>, << >>)

InitTeams ==
    /\ players = NewGameState.players
    /\ gameMode = NewGameState.gameMode
    /\ settings = NewGameState.settings
    /\ currentRound = NewGameState.currentRound
    /\ rounds = NewGameState.rounds
    /\ observers = << >>
    /\ playerIdCounter = 0
    /\ saveTimeout = << >>
    /\ urlTimeout = << >>
    /\ location = EmptyObject
    /\ historyLength = 1
    /\ held = << >>
    /\ teamPage = TeamPageLoaded
    /\ clearedSince = FALSE
    /\ storage = << >>
    /\ pc = "teams"
    /\ lastOp = Op("load", << >>, << >>, TRUE, << >>)
    /\ returned = Void
    /\ notified = << >>
    /\ everIds = {}
    /\ requested = [state |-> << >>, url |-> << >>]
    /\ burst = [requests |-> 0, writes |-> 0]

NextTeams ==
    \/ \E team \in Teams, delta \in TeamDeltas :
           /\ teamPage.scores[team] + delta <= MaxTeamScore
           /\ updateScore(team, delta)
    \/ resetScores

SpecTeams == InitTeams /\ [][NextTeams]_vars

\* C26: after any sequence of updateScore(team, delta) and resetScores() calls
\* both team scores are at least 0; updateScore changes only the score of the
\* named team, to max(0, old score + delta), and resetScores sets both to 0
C26_TeamScores ==
    /\ \A team \in Teams : teamPage.scores[team] >= 0
    /\ lastOp.name = "updateScore" =>
           \A team \in Teams :
               teamPage.scores[team] =
                   IF team = lastOp.id
                   THEN Max(0, lastOp.before[team] + lastOp.arg)
                   ELSE lastOp.before[team]
    /\ lastOp.name = "resetScores" =>
           \A team \in Teams : teamPage.scores[team] = 0

\* updateScore has clamped the score of team A, and team B keeps its points
C26_Witness ==
    /\ lastOp.name = "updateScore"
    /\ lastOp.id = "A"
    /\ lastOp.before["A"] > 0
    /\ lastOp.before["A"] + lastOp.arg < 0
    /\ teamPage.scores["A"] = 0
    /\ teamPage.scores["B"] > 0

-----------------------------------------------------------------------------
(* The bounds of the bid and tricks inputs of the pooch table *)

\* the cards dealt per round
roundCards == << 10, 9, 8, 7, 6, 5, 4, 3, 2, 1 >>

\* roundCards[round - 1] || 10: outside the array the access gives undefined
maxCards(round) ==
    IF round \in 1..Len(roundCards) /\ roundCards[round] # 0
    THEN roundCards[round] ELSE MaxCards

\* pooch.logic.validateBid: totalBids and playerCount are not read
validateBid(round, totalBids, playerCount) == [min |-> 0, max |-> maxCards(round)]

\* pooch.logic.validateTricks
validateTricks(round) == [min |-> 0, max |-> maxCards(round)]

\* a call of a function of the preset's logic while the page runs
ValidateCall(name, round, result) ==
    /\ Ready
    /\ returned' = Returned(<< result >>)
    /\ lastOp' = Op(name, << >>, round, TRUE, << >>)
    /\ NoNotify
    /\ UNCHANGED << players, gameMode, settings, currentRound, rounds, observers,
                    playerIdCounter, storage, pc, everIds, held, teamPage >>
    /\ clearedSince' = ClearedAfter

validateBidCall(round) ==
    ValidateCall("validateBid", round, validateBid(round, << >>, << >>))

validateTricksCall(round) ==
    ValidateCall("validateTricks", round, validateTricks(round))

\* parseInt(e.target.value) || 0: the value the change handler works with
InputValue(text) ==
    LET read == ParseInt(<< text >>)
    IN  IF read = << >> THEN 0 ELSE read[1]

\* the texts typed in a bid or tricks input: nothing, a number of cards of
\* the round, more cards than any round deals, and a negative number
InputTexts == {"", "1", "11", "-1"}

\* the rounds whose inputs are changed: the first and the last
BoundRounds == {1, Len(roundCards)}

\* the rounds the validation is asked about: also one beyond the sequence
ValidatedRounds == BoundRounds \cup {2, Len(roundCards) + 1}

NextBounds ==
    \/ init
    \/ gameModeClick("pooch", TRUE)
    \/ \E round \in BoundRounds, isBid \in BOOLEAN, text \in InputTexts :
           poochInputChange(PlayerId(0), round, isBid, InputValue(text))
    \/ \E round \in ValidatedRounds : validateBidCall(round)
    \/ \E round \in ValidatedRounds : validateTricksCall(round)

SpecBounds == Init /\ [][NextBounds]_vars

\* C27: for every round r in 1..10 validateBid(r) and validateTricks(r) return
\* {min: 0, max: c} with c the r-th of 10, 9, ..., 1, for a round beyond the
\* sequence they return max 10, and every bid and tricks value the change
\* handler stores in a player's roundData for round r lies in 0..c
C27_PoochInputBounds ==
    /\ lastOp.name \in {"validateBid", "validateTricks"} =>
           returned.value[1] =
               [min |-> 0,
                max |-> IF lastOp.arg \in 1..10 THEN 11 - lastOp.arg ELSE 10]
    /\ lastOp.name = "poochInputChange" =>
           LET round == lastOp.arg[1]
               stored == Target.roundData[round]
               field == IF lastOp.arg[2] THEN "bid" ELSE "tricks"
           IN  stored[field] \in 0..(11 - round)

-----------------------------------------------------------------------------
(* The pegs of the cribbage board *)

\* C28: whenever gameMode is cribbage, the position of every player equals the
\* player's score, also right after setGameMode('cribbage') on players who
\* have scored, so that the peg is drawn at hole min(score, 121)
C28_CribbagePositionIsScore ==
    gameMode = "cribbage" =>
        \A i \in 1..Len(players) :
            /\ players[i].position = players[i].score
            /\ Min(players[i].position, WinScore) = Min(players[i].score, WinScore)

-----------------------------------------------------------------------------
(* Clear History while a save is pending *)

\* clearHistory(): clearStorage() once the dialog is confirmed; the pending
\* save timer is left as it is
clearHistory(confirmed) ==
    IF confirmed THEN clearStorageCall(FALSE) ELSE NoCall("clearHistory", << >>)

NextClear ==
    \/ init
    \/ \E delta \in {-1, 1} :
           CanScore(PlayerId(0), delta, MaxScore)
               /\ scoreButtonClick(PlayerId(0), delta)
    \/ \E mode \in Modes, confirmed \in BOOLEAN : gameModeClick(mode, confirmed)
    \/ \E confirmed \in BOOLEAN : clearHistory(confirmed)
    \/ Tick
    \/ SaveTimerFires
    \/ URLTimerFires

SpecClear == Loaded(StorageLoadInputs) /\ [][NextClear]_vars

\* C29: Clear History is not undone by a pending save: once clearStorage()
\* has run, local storage holds no saved state until the next mutating
\* operation is invoked, also when a save scheduled before is still pending
C29_ClearNotUndone ==
    clearedSince => storage = << >>

-----------------------------------------------------------------------------
(* What is persisted once both timers have fired *)

\* the operations that change the state of the game, and the passing of time
\* up to the firing of both debounce timers
NextQuiescent ==
    \/ init
    \/ CanScore(PlayerId(0), 1, MaxScore) /\ updatePlayerScore(PlayerId(0), 1)
    \/ \E mode \in {"pooch", "cribbage"} : setGameMode(mode)
    \/ \E isBid \in BOOLEAN :
           poochInputChange(PlayerId(0), 1, isBid, InputValue("1"))
    \/ restore(SavedSnapshot)
    \/ Tick
    \/ SaveTimerFires
    \/ URLTimerFires

SpecQuiescent == Init /\ [][NextQuiescent]_vars

\* no timer is pending: without a further operation nothing is written any more
Quiescent == pc = "ready" /\ saveTimeout = << >> /\ urlTimeout = << >>

\* C30: every state change is eventually persisted: once the operations that
\* change the state (mutation methods, the pooch handler, restore) have ended
\* and both debounce timers have fired, local storage holds the serialization
\* of the final state and the address bar its URL encoding
C30_FinalStatePersisted ==
    Quiescent =>
        /\ storage = << JSONStringify(toJSON) >>
        /\ location = serializeToURL(toJSON)

====
